---- MODULE Spec2Model ----
(***************************************************************************)
(* Model of the marker tracking pipeline of br2_vision:                    *)
(*   - CameraOpticalFlow.run / next_inquiry   (br2_vision/optical_flow.py) *)
(*   - PostureData and compute_positions_and_directors                     *)
(*                           (br2_vision/data_structure/posture_data.py)   *)
(***************************************************************************)
EXTENDS Integers, Sequences, FiniteSets, TLC

(***************************************************************************)
(* Bounds of the model.                                                    *)
(***************************************************************************)
NumFrames == 3      \* frames of the video (self.num_frames); frames are 0..NumFrames-1
NumTags == 2        \* tags known to the tracker (self.tags)
MaxQueues == 2      \* longest list of tracking jobs handed to run()
MaxCoord == 2       \* pixel coordinates the flow routine can report: 1..MaxCoord
NumZ == 1           \* cross-sections: len(marker_positions)
NumT == 2           \* timesteps of a track: len(data_collection[0])
NumRingTags == 4    \* tags on the ring of one cross-section
MaxObs == 1         \* tracked observations are 0..MaxObs, or missing
MaxSessions == 2    \* PostureData objects constructed one after the other
MaxPixel == 1       \* clicks in the video window land on pixels 0..MaxPixel of each axis
MaxShift == 1       \* clicks in the zoom window land up to MaxShift image pixels off center
NumLabels == 2      \* labels the prompt offers
MaxPoints == 2      \* points clicked in one labeling session

(***************************************************************************)
(* Program constants.                                                      *)
(***************************************************************************)
Cleared == 0        \* self.points[stime + 1 : etime, tag_order, :] = 0.0
Origin == 0         \* marker_positions.origin, the local origin of a cross-section
BasisQ == 1         \* marker_positions.Q, the local basis (one axis is modelled)
ZoomScale == 5      \* zoomed_inquiry(..., scale=5.0, ...)
DispW == 80         \* zoomed_inquiry(..., disp_w=80)
DispH == 80         \* zoomed_inquiry(..., disp_h=80, ...)

Frames == 0..(NumFrames - 1)
Tags == 1..NumTags
Coords == 1..MaxCoord
PixelValues == {Cleared} \cup Coords

\* One tracking job: the (tags, stime, etime) triple popped from self.inquiries.
Jobs ==
  { [tags |-> tg, stime |-> s, etime |-> e] :
      tg \in (SUBSET Tags) \ {{}}, s \in 0..NumFrames, e \in 0..NumFrames }
ValidJobs == { j \in Jobs : j.stime <= j.etime }
NoJob == [tags |-> {}, stime |-> 0, etime |-> 0]

VARIABLES
  \* ---- CameraOpticalFlow ----
  points,        \* self.points[frame][tag]: the pixel entries of the Track Store
  flow_queues,   \* self.flow_queues: the list run() iterates
  inquiries,     \* self.inquiries: the jobs still to be popped
  history,       \* self.history
  qi,            \* position of run()'s for loop in flow_queues (1-based)
  pc,            \* where run() is: "idle", "flow", "returned", "done", "crashed"
  job,           \* (tags, stime, etime) of the job in execution (kept until the next pop)
  num_frame,     \* loop variable of the flow loop
  status,        \* the sticky status vector, per tag of the job
  capOpen,       \* the cv2.VideoCapture of the job is open
  videoOpens,    \* number of cv2.VideoCapture(...) calls so far
  saved,         \* calls of dataset.save_flow_trajectory so far
  line242,       \* the text of optical_flow.py line 242: "as_written" or "colon_restored"
  has_fields,    \* inquiries, history, points, tags and _num_frames exist on the object
  \* ---- bookkeeping of one job, for stating the properties ----
  prePoints,     \* self.points when the job was popped
  produced,      \* <<frame, tag, p1>>: coordinates the flow returned, status 1, for points
                 \* the job had not lost before that frame
  writes,        \* <<frame, tag>>: coordinate writes of this job
  reported,      \* <<frame, tag, ok>>: the status the flow routine reported in this job
  preOpens,      \* videoOpens when the job was popped
  finished,      \* jobs whose next_inquiry call has returned, in order
  old_gray,      \* next_inquiry's old_gray holds an image (FALSE: None)
  \* ---- Track Store contents read by the Posture Reconstructor ----
  track,         \* dataset.load_track(z, tag)[tidx], as track[z][t][tag]
  fit_result,    \* outcome of the last direct compute_positions_and_directors call
  \* ---- PostureData and its backing file ----
  fileExists,    \* os.path.exists(self.path)
  file_positions,  \* dataset /posture/positions: << >> when absent, << array >> otherwise
  file_directors,  \* dataset /posture/directors: << >> when absent, << array >> otherwise
  mem_positions,   \* self._positions: << >> for None, << array >> otherwise
  mem_directors,   \* self._directors: << >> for None, << array >> otherwise
  inside_context,  \* self._inside_context
  phase,         \* "new", "in", "raising", "closed", "failed"
  session,       \* number of PostureData objects constructed so far
  \* ---- bookkeeping, for stating the properties ----
  loads,         \* the last two load_positions_and_directors calls that returned
  trackChanged,  \* the Track Store changed since the last load that returned
  saveCompleted, \* a save wrote both datasets since the last load that returned
  lastSave,      \* the last save_positions_and_directors call: file before, arrays, outcome
  \* ---- labeling script: main() and mouse_event_click_point ----
  click_points,  \* points: the clicked pixel positions
  marker_label,  \* marker_label: the labels entered
  prev_tag,      \* the module-level prev_tag
  main_pc,       \* "draw" (top of the loop), "wait" (in cv2.waitKey), "done", "crashed"
  appended,      \* the (point, label) pairs of the FlowQueues appended to the dataset
  pending,       \* the click handlers that wait, innermost last: in the prompt
                 \* (with the index of their point) or in zoomed_inquiry
  chosen,        \* bookkeeping: per clicked point, the tag chosen for it (None: none)
  \* ---- labeling script: zoomed_inquiry ----
  zoom_pc,       \* "closed", "open" (in the inquiry loop), "returned"
  zoom_arg,      \* the uv argument: the un-zoomed click
  zoom_uv,       \* _uv: the cross in the zoom window
  zoom_ret,      \* the returned position
  zoom_key,      \* the key that ended the loop
  zoom_last,     \* bookkeeping: the last mouse event in the zoom window
  zoom_cb        \* the zoom window passes its mouse events to this call's _uv

flowVars ==
  << points, flow_queues, inquiries, history, qi, pc, job, num_frame, status,
     capOpen, videoOpens, saved, line242, has_fields, prePoints, produced, writes, reported, preOpens, finished, old_gray >>

fitVars == << track, fit_result >>

postureVars ==
  << fileExists, file_positions, file_directors, mem_positions, mem_directors,
     inside_context, phase, session, loads, trackChanged, saveCompleted, lastSave >>

labelVars == << click_points, marker_label, prev_tag, main_pc, appended, pending, chosen >>

zoomVars == << zoom_pc, zoom_arg, zoom_uv, zoom_ret, zoom_key, zoom_last, zoom_cb >>

guiVars == << labelVars, zoomVars >>

vars == << flowVars, fitVars, postureVars, guiVars >>

(***************************************************************************)
(* CameraOpticalFlow                                                       *)
(***************************************************************************)

\* run() over a list of one job, of any tag set and frame range.
OneJobLists == [1..1 -> ValidJobs]

\* run() over a list of up to MaxQueues jobs; these jobs track the first tag over
\* at most one frame, or start past the video.
RunJobs == { j \in ValidJobs : j.tags = {1} /\ j.etime <= j.stime + 1 }
RunLists == UNION { [1..k -> RunJobs] : k \in 1..MaxQueues }

\* A Track Store as the labeling stage or an earlier run left it: freshly
\* initialised, or holding coordinates of an earlier tracking pass.
InitialPoints == { [f \in Frames |-> [t \in Tags |-> v]] : v \in PixelValues }

\* Line 242 as it stands in the file has no colon and the module does not
\* compile; with the colon restored it is the skip test of the design.
Line242Readings == {"as_written", "colon_restored"}

\* The value this model keeps in a variable whose field does not exist.
NoPoints == [f \in Frames |-> [t \in Tags |-> Cleared]]

\* __init__, lines 50-54: video_path, flow_queues and dataset are set, and
\* nothing else; inquiries, history, points, tags and _num_frames do not exist.
InitFlow(lists) ==
  /\ line242 \in Line242Readings
  /\ has_fields = FALSE
  /\ points = NoPoints
  /\ flow_queues \in lists
  /\ inquiries = << >>
  /\ history = << >>
  /\ qi = 1
  /\ pc = "idle"
  /\ job = NoJob
  /\ num_frame = 0
  /\ status = [t \in Tags |-> FALSE]
  /\ capOpen = FALSE
  /\ videoOpens = 0
  /\ saved = << >>
  /\ prePoints = points
  /\ produced = {}
  /\ writes = {}
  /\ reported = {}
  /\ preOpens = 0
  /\ finished = << >>
  /\ old_gray = FALSE

\* line 242 with its colon, the skip test of the design: a job that starts at
\* or past the frame count is skipped
SkipJob(stime) == stime >= NumFrames

\* self.history.append((tags, stime, etime))
HistoryAppend(h, j) == Append(h, j)

\* self.points[stime + 1 : etime, tag_order, :] = 0.0
NoClear(pts, j) == pts
ClearPoints(pts, j) ==
  [f \in Frames |->
     [t \in Tags |->
        IF f >= j.stime + 1 /\ f < j.etime /\ t \in j.tags
          THEN Cleared ELSE pts[f][t]]]

\* status = np.logical_and(status, new_status)
LatestStatus(st, new_status) == new_status
UpdateStatus(st, new_status) == [t \in DOMAIN st |-> st[t] /\ new_status[t]]

\* self.points[stime + num_frame + 1, tracking_tag_order, :] = p1[status[:, 0], 0, :]
WritePoints(pts, frame, st, j, p1) ==
  [pts EXCEPT ![frame] =
     [t \in Tags |-> IF t \in j.tags /\ st[t] THEN p1[t] ELSE pts[frame][t]]]

\* cap.read(): the frame at `pos` exists
FrameExists(pos) == pos < NumFrames

jobBookkeepingReset ==
  /\ prePoints' = points
  /\ produced' = {}
  /\ writes' = {}
  /\ reported' = {}
  /\ preOpens' = videoOpens

\* The module as written: compiling it raises SyntaxError at line 242, and no
\* tracker is built and no job runs.
ImportSyntaxError ==
  /\ UNCHANGED << fitVars, postureVars, guiVars, old_gray >>
  /\ line242 = "as_written"
  /\ pc = "idle"
  /\ pc' = "crashed"
  /\ UNCHANGED << points, flow_queues, inquiries, history, qi, job, num_frame, status,
                  capOpen, videoOpens, saved, line242, has_fields, prePoints, produced,
                  writes, reported, preOpens, finished >>

\* run() on the object as __init__ leaves it: next_inquiry reads self.inquiries
\* at line 236 and raises AttributeError.
RunAttributeError ==
  /\ UNCHANGED << fitVars, postureVars, guiVars, old_gray >>
  /\ line242 = "colon_restored"
  /\ ~has_fields
  /\ pc = "idle"
  /\ pc' = "crashed"
  /\ UNCHANGED << points, flow_queues, inquiries, history, qi, job, num_frame, status,
                  capOpen, videoOpens, saved, line242, has_fields, prePoints, produced,
                  writes, reported, preOpens, finished >>

\* The assignments no code of src/ makes, as the design describes the tracker:
\* the jobs of the list are the inquiries to pop, the history log is empty and
\* points is the Track Store table of the camera.
AssignFields ==
  /\ UNCHANGED << fitVars, postureVars, guiVars, old_gray >>
  /\ line242 = "colon_restored"
  /\ ~has_fields
  /\ pc = "idle"
  /\ has_fields' = TRUE
  /\ inquiries' = flow_queues
  /\ history' = << >>
  /\ points' \in InitialPoints
  /\ prePoints' = points'
  /\ UNCHANGED << flow_queues, qi, pc, job, num_frame, status, capOpen, videoOpens,
                  saved, line242, produced, writes, reported, preOpens, finished >>

\* next_inquiry, lines 236-244: nothing to pop, or a start frame past the video
NextInquirySkip ==
  /\ UNCHANGED << fitVars, postureVars, guiVars, line242, has_fields, old_gray >>
  /\ has_fields
  /\ pc = "idle"
  /\ IF Len(inquiries) = 0
       THEN UNCHANGED << inquiries, history, job, prePoints, produced, writes, reported, preOpens >>
       ELSE /\ SkipJob(Head(inquiries).stime)
            /\ job' = Head(inquiries)
            /\ inquiries' = Tail(inquiries)
            /\ history' = HistoryAppend(history, Head(inquiries))
            /\ jobBookkeepingReset
  /\ pc' = "returned"
  /\ finished' = IF Len(inquiries) = 0 THEN finished ELSE Append(finished, Head(inquiries))
  /\ UNCHANGED << points, flow_queues, qi, num_frame, status, capOpen, videoOpens, saved >>

\* next_inquiry, lines 240-267: pop, log, open the video, read the start frame,
\* clear the job's range and start with every point tracked
NextInquiryStart ==
  /\ UNCHANGED << fitVars, postureVars, guiVars, line242, has_fields >>
  /\ has_fields
  /\ pc = "idle"
  /\ Len(inquiries) > 0
  /\ ~SkipJob(Head(inquiries).stime)
  /\ job' = Head(inquiries)
  /\ inquiries' = Tail(inquiries)
  /\ history' = HistoryAppend(history, Head(inquiries))
  /\ jobBookkeepingReset
  /\ videoOpens' = videoOpens + 1
  /\ capOpen' = TRUE
  /\ FrameExists(Head(inquiries).stime)
  /\ old_gray' = TRUE
  /\ points' = ClearPoints(points, Head(inquiries))
  /\ status' = [t \in Tags |-> t \in Head(inquiries).tags]
  /\ num_frame' = 0
  /\ pc' = "flow"
  /\ UNCHANGED << flow_queues, qi, saved, finished >>

\* next_inquiry, lines 240-251: the video cannot be opened; the assert of
\* cap.isOpened() fails after the pop and the log entry, with no capture open
NextInquiryOpenError ==
  /\ UNCHANGED << fitVars, postureVars, guiVars, line242, has_fields, old_gray >>
  /\ has_fields
  /\ pc = "idle"
  /\ Len(inquiries) > 0
  /\ ~SkipJob(Head(inquiries).stime)
  /\ job' = Head(inquiries)
  /\ inquiries' = Tail(inquiries)
  /\ history' = HistoryAppend(history, Head(inquiries))
  /\ jobBookkeepingReset
  /\ videoOpens' = videoOpens + 1
  /\ capOpen' = FALSE
  /\ pc' = "crashed"
  /\ UNCHANGED << points, flow_queues, qi, num_frame, status, saved, finished >>

\* What follows a start frame that cannot be read (ret false, frame None at line
\* 255).  flat_color is imported from br2_vision.cv2_custom.transformation, whose
\* code is not under src/, so what it does with None is open:
\*   "raises"   flat_color(None) raises at line 256 and the exception leaves run();
\*   "returns"  flat_color(None) returns and old_gray holds no image; lines 258-267
\*              clear the range and the loop starts.
ReadErrorOutcomes == { "raises", "returns" }

\* next_inquiry, lines 240-267, when the start frame cannot be read
NextInquiryReadError ==
  /\ UNCHANGED << fitVars, postureVars, guiVars, line242, has_fields >>
  /\ has_fields
  /\ pc = "idle"
  /\ Len(inquiries) > 0
  /\ ~SkipJob(Head(inquiries).stime)
  /\ job' = Head(inquiries)
  /\ inquiries' = Tail(inquiries)
  /\ history' = HistoryAppend(history, Head(inquiries))
  /\ jobBookkeepingReset
  /\ videoOpens' = videoOpens + 1
  /\ capOpen' = TRUE
  /\ old_gray' = FALSE
  /\ \E outcome \in ReadErrorOutcomes :
       IF outcome = "raises"
         THEN /\ pc' = "crashed"
              /\ UNCHANGED << points, status, num_frame >>
         ELSE /\ pc' = "flow"
              /\ points' = ClearPoints(points, Head(inquiries))
              /\ status' = [t \in Tags |-> t \in Head(inquiries).tags]
              /\ num_frame' = 0
  /\ UNCHANGED << flow_queues, qi, saved, finished >>

\* The frame the loop iteration num_frame reads and writes.
LoopFrame == job.stime + num_frame + 1

InLoop == pc = "flow" /\ num_frame < job.etime - job.stime

leaveLoop ==
  /\ pc' = "returned"
  /\ capOpen' = FALSE
  /\ finished' = Append(finished, job)

\* lines 269-271: ret is false (end of the video, or a failed read)
FlowReadFail ==
  /\ UNCHANGED << fitVars, postureVars, guiVars, line242, has_fields, old_gray >>
  /\ InLoop
  /\ leaveLoop
  /\ UNCHANGED << points, flow_queues, inquiries, history, qi, job, num_frame, status,
                  videoOpens, saved, prePoints, produced, writes, reported, preOpens >>

\* cv2.calcOpticalFlowPyrLK for the points of job j: per tag, 0 when the reported
\* status is 0 (p1 is then meaningless), else the coordinate p1 with status 1.
FlowResults(j) ==
  { o \in [Tags -> 0..MaxCoord] : \A t \in Tags : t \notin j.tags => o[t] = 0 }
NewStatus(o) == [t \in Tags |-> o[t] # 0]

flowBookkeeping(o) ==
  /\ produced' = produced \cup
       { << LoopFrame, t, o[t] >> : t \in { u \in job.tags : status[u] /\ o[u] # 0 } }
  /\ reported' = reported \cup { << LoopFrame, t, o[t] # 0 >> : t \in job.tags }

\* lines 269-280: the frame is read and old_gray holds no image; the flow call
\* cv2.calcOpticalFlowPyrLK(None, ...) raises and the exception leaves run()
FlowNoPreviousImage ==
  /\ UNCHANGED << fitVars, postureVars, guiVars, line242, has_fields, old_gray >>
  /\ InLoop
  /\ FrameExists(LoopFrame)
  /\ ~old_gray
  /\ pc' = "crashed"
  /\ UNCHANGED << points, flow_queues, inquiries, history, qi, job, num_frame, status,
                  capOpen, videoOpens, saved, prePoints, produced, writes, reported,
                  preOpens, finished >>

\* lines 278-284: the flow routine ran and no point of the job is tracked any more
FlowAllLost ==
  /\ UNCHANGED << fitVars, postureVars, guiVars, line242, has_fields, old_gray >>
  /\ InLoop
  /\ FrameExists(LoopFrame)
  /\ old_gray
  /\ \E o \in FlowResults(job) :
       LET st == UpdateStatus(status, NewStatus(o)) IN
         /\ \A t \in job.tags : ~st[t]
         /\ status' = st
         /\ flowBookkeeping(o)
  /\ leaveLoop
  /\ UNCHANGED << points, flow_queues, inquiries, history, qi, job, num_frame,
                  videoOpens, saved, prePoints, writes, preOpens >>

\* lines 278-295: the flow routine ran; the points still tracked are written
FlowWrite ==
  /\ UNCHANGED << fitVars, postureVars, guiVars, line242, has_fields, old_gray >>
  /\ InLoop
  /\ FrameExists(LoopFrame)
  /\ old_gray
  /\ \E o \in FlowResults(job) :
       LET st == UpdateStatus(status, NewStatus(o)) IN
         /\ \E t \in job.tags : st[t]
         /\ status' = st
         /\ points' = WritePoints(points, LoopFrame, st, job, o)
         /\ writes' = writes \cup { << LoopFrame, t >> : t \in { u \in job.tags : st[u] } }
         /\ flowBookkeeping(o)
  /\ num_frame' = num_frame + 1
  /\ UNCHANGED << flow_queues, inquiries, history, qi, pc, job, capOpen,
                  videoOpens, saved, prePoints, preOpens, finished >>

\* line 268 exhausted, lines 297-298
FlowLoopEnd ==
  /\ UNCHANGED << fitVars, postureVars, guiVars, line242, has_fields, old_gray >>
  /\ pc = "flow"
  /\ num_frame >= job.etime - job.stime
  /\ leaveLoop
  /\ UNCHANGED << points, flow_queues, inquiries, history, qi, job, num_frame, status,
                  videoOpens, saved, prePoints, produced, writes, reported, preOpens >>

\* TrackingData.save_flow_trajectory(data_collection, queue, num_frames): the call
\* is recorded; next_inquiry returns no data, so there is no pixel series to write.
save_flow_trajectory(log, data, queue) == Append(log, [queue |-> queue, data |-> data])

\* run, line 68, and the step of the for loop
RunSave ==
  /\ UNCHANGED << fitVars, postureVars, guiVars, line242, has_fields, old_gray >>
  /\ pc = "returned"
  /\ saved' = save_flow_trajectory(saved, "None", flow_queues[qi])
  /\ qi' = qi + 1
  /\ pc' = IF qi + 1 > Len(flow_queues) THEN "done" ELSE "idle"
  /\ UNCHANGED << points, flow_queues, inquiries, history, job, num_frame, status,
                  capOpen, videoOpens, prePoints, produced, writes, reported, preOpens, finished >>

NextFlow ==
  \/ ImportSyntaxError
  \/ RunAttributeError
  \/ AssignFields
  \/ NextInquirySkip
  \/ NextInquiryStart
  \/ NextInquiryOpenError
  \/ NextInquiryReadError
  \/ FlowReadFail
  \/ FlowNoPreviousImage
  \/ FlowAllLost
  \/ FlowWrite
  \/ FlowLoopEnd
  \/ RunSave


(***************************************************************************)
(* Posture Reconstructor: compute_positions_and_directors                  *)
(*                                                                         *)
(* Numbers are exact fractions << numerator, denominator >> with a         *)
(* positive denominator; << 0, 0 >> is NaN.  One coordinate axis of the    *)
(* reference layout and of the observations is modelled: the regression    *)
(* treats the output components independently.                             *)
(***************************************************************************)
ZIndex == 1..NumZ
Times == 1..NumT
RingTags == 1..NumRingTags

NaN == << 0, 0 >>
IsNaN(x) == x[2] = 0
Num(v) == << v, 1 >>
Observations == {NaN} \cup { Num(v) : v \in 0..MaxObs }

RECURSIVE GCD(_, _)
GCD(a, b) == IF b = 0 THEN a ELSE GCD(b, a % b)

Abs(a) == IF a < 0 THEN 0 - a ELSE a

\* The fraction n/d, d # 0, in lowest terms with a positive denominator.
Frac(n, d) ==
  LET g == GCD(Abs(n), Abs(d))
      sgn == IF d < 0 THEN 0 - 1 ELSE 1
  IN << (sgn * n) \div g, (sgn * d) \div g >>

\* marker_positions.get_position(z_index, tag): the reference position of a tag
\* on the ring, around the local origin: 1, -1, 2, -2, ...
get_position(k) == IF k % 2 = 1 THEN (k + 1) \div 2 ELSE 0 - (k \div 2)

RECURSIVE SumUpTo(_, _)
SumUpTo(F, k) == IF k = 0 THEN 0 ELSE F[k] + SumUpTo(F, k - 1)

\* nan_index = np.isnan(P).any(axis=1); the tags that survive P[~nan_index]
ValidTags(tr, z, t) == { k \in RingTags : ~IsNaN(tr[z][t][k]) }

\* LinearRegression().fit(R, P) followed by predict([x]): ordinary least squares
\* with intercept over the surviving tags; a rank-deficient system gets the
\* minimum-norm solution, whose slope is 0.
Predict(tr, z, t, x) ==
  LET valid == ValidTags(tr, z, t)
      n == Cardinality(valid)
      R == [k \in RingTags |-> IF k \in valid THEN get_position(k) ELSE 0]
      P == [k \in RingTags |-> IF k \in valid THEN tr[z][t][k][1] ELSE 0]
      sR == SumUpTo(R, NumRingTags)
      sP == SumUpTo(P, NumRingTags)
      sRR == SumUpTo([k \in RingTags |-> R[k] * R[k]], NumRingTags)
      sRP == SumUpTo([k \in RingTags |-> R[k] * P[k]], NumRingTags)
      Sxx == n * sRR - sR * sR
      Sxy == n * sRP - sR * sP
  IN IF Sxx = 0
       THEN Frac(sP, n)
       ELSE Frac(sP * Sxx - Sxy * sR + n * Sxy * x, n * Sxx)

\* LinearRegression().fit raises ValueError on an array with 0 samples
FitRaises(tr, z, t) == ValidTags(tr, z, t) = {}

\* compute_positions_and_directors(path): the two stacked arrays, or the
\* exception of the first fit that has no sample
compute_positions_and_directors(tr) ==
  IF \E z \in ZIndex, t \in Times : FitRaises(tr, z, t)
    THEN [raised |-> TRUE, positions |-> << >>, directors |-> << >>]
    ELSE [raised |-> FALSE,
          positions |-> [z \in ZIndex |-> [t \in Times |-> Predict(tr, z, t, Origin)]],
          directors |-> [z \in ZIndex |-> [t \in Times |-> Predict(tr, z, t, BasisQ)]]]

NotCalled == [raised |-> FALSE, positions |-> << >>, directors |-> << >>]

\* Every observation table within the bounds.
FitTracks == [ZIndex -> [Times -> [RingTags -> Observations]]]

\* Every tag seen at its reference position shifted by c.
Translated(c) == [z \in ZIndex |-> [t \in Times |-> [k \in RingTags |-> Num(get_position(k) + c)]]]

\* The same, with every tag of the first cross-section lost at the first timestep.
Occluded(c) == [Translated(c) EXCEPT ![1][1] = [k \in RingTags |-> NaN]]

\* The Track Store contents the PostureData sessions are run against.
PostureTracks == { Translated(0), Translated(1), Occluded(0) }

InitFitIdle ==
  /\ track = Translated(0)
  /\ fit_result = NotCalled

\* The tables of a pure translation of the ring, by every shift within the bounds.
TranslatedTracks == { Translated(c) : c \in (0 - MaxObs)..MaxObs }

InitFit ==
  /\ track \in FitTracks \cup TranslatedTracks
  /\ fit_result = NotCalled

\* a direct call of compute_positions_and_directors
ComputeCall ==
  /\ fit_result = NotCalled
  /\ fit_result' = compute_positions_and_directors(track)
  /\ UNCHANGED << track, flowVars, postureVars, guiVars >>

(***************************************************************************)
(* PostureData                                                             *)
(***************************************************************************)
Absent == << >>
Stored(a) == << a >>
NoSave == [pre |-> << Absent, Absent >>, new |-> << Absent, Absent >>, outcome |-> "none"]

\* The backing file as an earlier complete session left it, or without posture
\* datasets.
InitialFiles ==
  { << Absent, Absent >> } \cup
  { << Stored(compute_positions_and_directors(tr).positions),
       Stored(compute_positions_and_directors(tr).directors) >> :
      tr \in { x \in PostureTracks : ~compute_positions_and_directors(x).raised } }

InitPostureIdle ==
  /\ fileExists = TRUE
  /\ file_positions = Absent
  /\ file_directors = Absent
  /\ mem_positions = Absent
  /\ mem_directors = Absent
  /\ inside_context = FALSE
  /\ phase = "new"
  /\ session = 1
  /\ loads = << >>
  /\ trackChanged = FALSE
  /\ saveCompleted = FALSE
  /\ lastSave = NoSave

\* PostureData.__init__
InitPosture ==
  /\ track \in PostureTracks
  /\ fit_result = NotCalled
  /\ fileExists \in BOOLEAN
  /\ \E f \in InitialFiles :
       /\ file_positions = (IF fileExists THEN f[1] ELSE Absent)
       /\ file_directors = (IF fileExists THEN f[2] ELSE Absent)
  /\ mem_positions = Absent
  /\ mem_directors = Absent
  /\ inside_context = FALSE
  /\ phase = "new"
  /\ session = 1
  /\ loads = << >>
  /\ trackChanged = FALSE
  /\ saveCompleted = FALSE
  /\ lastSave = NoSave

\* load_positions_and_directors, lines 127-145, as a function of the file, the
\* fields and the Track Store: the new fields, the path taken, and whether the
\* recomputation raised.
LoadKeepsLoadedArray(fp, fd, mp, md, tr) ==
  LET flag == fp = Absent \/ fd = Absent
      c == compute_positions_and_directors(tr)
  IN IF ~flag
       THEN [positions |-> fp, directors |-> fd, path |-> "hit", raised |-> FALSE]
       ELSE IF c.raised
         THEN [positions |-> IF fp # Absent THEN fp ELSE mp,
               directors |-> IF fd # Absent THEN fd ELSE md,
               path |-> "recompute", raised |-> TRUE]
         ELSE [positions |-> IF fp # Absent THEN fp ELSE Stored(c.positions),
               directors |-> IF fd # Absent THEN fd ELSE Stored(c.directors),
               path |-> "recompute", raised |-> FALSE]
load_positions_and_directors(fp, fd, mp, md, tr) ==
  LET flag == fp = Absent \/ fd = Absent
      p1 == IF fp # Absent THEN fp ELSE mp
      d1 == IF fd # Absent THEN fd ELSE md
      c == compute_positions_and_directors(tr)
  IN IF ~flag
       THEN [positions |-> p1, directors |-> d1, path |-> "hit", raised |-> FALSE]
       ELSE IF c.raised
         THEN [positions |-> p1, directors |-> d1, path |-> "recompute", raised |-> TRUE]
         ELSE [positions |-> Stored(c.positions), directors |-> Stored(c.directors),
               path |-> "recompute", raised |-> FALSE]

\* A dataset h5py has created and nobody has written: it reads as zeros.
ZeroFilled == Stored([z \in ZIndex |-> [t \in Times |-> Num(0)]])

\* h5f.require_dataset(key, shape, dtype): the dataset, created when missing
require_dataset(f) == IF f = Absent THEN ZeroFilled ELSE f

\* save_positions_and_directors, lines 101-116: the datasets of the file after the
\* call, by the place where it stopped.
\*   "before":    opening the file or the first require_dataset failed
\*   "positions": the write of the positions failed (line 107)
\*   "between":   the positions are written; line 108 or the second
\*                require_dataset failed
\*   "directors": the write of the directors failed (line 115)
\*   "after":     both arrays are written; line 116 or closing the file failed
\*   "ok":        the call returned
SaveOutcomes == {"ok", "before", "positions", "between", "directors", "after"}
SaveRaises(outcome) == outcome # "ok"
save_positions_and_directors(fp, fd, mp, md, outcome) ==
  CASE outcome = "before" -> << fp, fd >>
    [] outcome = "positions" -> << require_dataset(fp), fd >>
    [] outcome = "between" -> << mp, fd >>
    [] outcome = "directors" -> << mp, require_dataset(fd) >>
    [] OTHER -> << mp, md >>

\* The record of a load that returned.
LoadRecord(r) ==
  [session |-> session, path |-> r.path, positions |-> r.positions,
   directors |-> r.directors, filePositions |-> file_positions,
   fileDirectors |-> file_directors, track |-> track,
   trackChanged |-> trackChanged, saveCompleted |-> saveCompleted]

Remember(r) ==
  IF r.raised
    THEN UNCHANGED << loads, trackChanged, saveCompleted >>
    ELSE /\ loads' = (IF loads = << >> THEN << LoadRecord(r) >>
                      ELSE << loads[Len(loads)], LoadRecord(r) >>)
         /\ trackChanged' = FALSE
         /\ saveCompleted' = FALSE

\* a new PostureData(path) once the previous object is out of use
NewSession ==
  /\ phase \in {"closed", "failed"}
  /\ session < MaxSessions
  /\ session' = session + 1
  /\ mem_positions' = Absent
  /\ mem_directors' = Absent
  /\ inside_context' = FALSE
  /\ phase' = "new"
  /\ UNCHANGED << fileExists, file_positions, file_directors, loads, trackChanged,
                  saveCompleted, lastSave, fitVars, flowVars, guiVars >>

\* __enter__ with no file at self.path: the flag is set, then the assert fails
EnterMissingFile ==
  /\ phase = "new"
  /\ ~fileExists
  /\ inside_context' = TRUE
  /\ phase' = "failed"
  /\ UNCHANGED << fileExists, file_positions, file_directors, mem_positions,
                  mem_directors, session, loads, trackChanged, saveCompleted,
                  lastSave, fitVars, flowVars, guiVars >>

\* __enter__: the flag is set and the arrays are loaded
Enter ==
  /\ phase = "new"
  /\ fileExists
  /\ inside_context' = TRUE
  /\ LET r == load_positions_and_directors(file_positions, file_directors,
                                           mem_positions, mem_directors, track)
     IN /\ mem_positions' = r.positions
        /\ mem_directors' = r.directors
        /\ phase' = (IF r.raised THEN "failed" ELSE "in")
        /\ Remember(r)
  /\ UNCHANGED << fileExists, file_positions, file_directors, session, lastSave,
                  fitVars, flowVars, guiVars >>

\* load_positions_and_directors called inside the with block
LoadCall ==
  /\ phase = "in"
  /\ LET r == load_positions_and_directors(file_positions, file_directors,
                                           mem_positions, mem_directors, track)
     IN /\ mem_positions' = r.positions
        /\ mem_directors' = r.directors
        /\ phase' = (IF r.raised THEN "raising" ELSE "in")
        /\ Remember(r)
  /\ UNCHANGED << fileExists, file_positions, file_directors, inside_context,
                  session, lastSave, fitVars, flowVars, guiVars >>

saveStep(outcome) ==
  LET after == save_positions_and_directors(file_positions, file_directors,
                                            mem_positions, mem_directors, outcome)
  IN /\ file_positions' = after[1]
     /\ file_directors' = after[2]
     /\ lastSave' = [pre |-> << file_positions, file_directors >>,
                     new |-> << mem_positions, mem_directors >>,
                     outcome |-> outcome]
     /\ saveCompleted' = (saveCompleted \/ outcome \in {"ok", "after"})

\* save_positions_and_directors called inside the with block
SaveCall ==
  /\ phase = "in"
  /\ \E outcome \in SaveOutcomes :
       /\ saveStep(outcome)
       /\ phase' = (IF SaveRaises(outcome) THEN "raising" ELSE "in")
  /\ UNCHANGED << fileExists, mem_positions, mem_directors, inside_context, session,
                  loads, trackChanged, fitVars, flowVars, guiVars >>

\* __exit__, at the end of the with block or on an exception leaving it: the
\* arrays are saved, then the flag is cleared
Exit ==
  /\ phase \in {"in", "raising"}
  /\ \E outcome \in SaveOutcomes :
       /\ saveStep(outcome)
       /\ inside_context' = (IF SaveRaises(outcome) THEN inside_context ELSE FALSE)
       /\ phase' = (IF SaveRaises(outcome) THEN "failed" ELSE "closed")
  /\ UNCHANGED << fileExists, mem_positions, mem_directors, session, loads,
                  trackChanged, fitVars, flowVars, guiVars >>

\* The tracker rewrites the Track Store between two uses of the posture data.
TrackStoreChange ==
  /\ \E tr \in PostureTracks \ {track} : track' = tr
  /\ trackChanged' = TRUE
  /\ UNCHANGED << fit_result, flowVars, guiVars, fileExists, file_positions, file_directors,
                  mem_positions, mem_directors, inside_context, phase, session,
                  loads, saveCompleted, lastSave >>

NextPosture ==
  \/ NewSession
  \/ EnterMissingFile
  \/ Enter
  \/ LoadCall
  \/ SaveCall
  \/ Exit
  \/ TrackStoreChange

(***************************************************************************)
(* Labeling script: script/add_initial_flow_point.py                       *)
(*                                                                         *)
(* A pixel position is << x, y >>.  A label is the (cross-section index,   *)
(* tag) pair the prompt returns; the empty sequence is the empty string.   *)
(***************************************************************************)
Pixels == 0..MaxPixel
ClickPositions == Pixels \X Pixels

\* Mouse positions in the zoom window: the center of the cross, one sub-pixel
\* beside it, and whole image pixels to the right of / below it.
ZoomCenter == (DispW * ZoomScale) \div 2
ZoomPixels ==
  {ZoomCenter, ZoomCenter + 1} \cup { ZoomCenter + ZoomScale * d : d \in 1..MaxShift }
ZoomPositions == ZoomPixels \X ZoomPixels

Labels == { << 0, k >> : k \in 1..NumLabels }
EmptyTag == << >>
None == << "None" >>
PromptAnswers == Labels \cup {None}

\* on_mouse_zoom(event, x, y, flags, param): the new value of param["uv"]
on_mouse_zoom(event, xy, uv, original_uv) ==
  IF event = "EVENT_LBUTTONDOWN" THEN xy
  ELSE IF event = "EVENT_RBUTTONDOWN" THEN original_uv
  ELSE uv

\* The value zoomed_inquiry returns for the argument uv when the loop ends with
\* the cross at _uv.  The key that ends the loop is not a parameter: "d" rebinds
\* the local name uv only, and the result is computed from _uv.
ZoomReturn(uv, zuv) ==
  << (zuv[1] \div ZoomScale) + uv[1] - (DispW \div 2),
     (zuv[2] \div ZoomScale) + uv[2] - (DispH \div 2) >>

NoReturn == << >>

\* A click handler that waits in the prompt for the label of point number idx.
PromptFrame(idx) ==
  [kind |-> "prompt", idx |-> idx, bypass |-> FALSE,
   arg |-> << 0, 0 >>, uv |-> << 0, 0 >>]

\* A click handler that waits in zoomed_inquiry.  bypass is the Ctrl flag read at
\* line 116.  arg and uv hold the call's uv and _uv while a later zoomed_inquiry
\* call runs above it; the innermost call's values are zoom_arg and zoom_uv.
ZoomFrame(bypass, arg, uv) ==
  [kind |-> "zoom", idx |-> 0, bypass |-> bypass, arg |-> arg, uv |-> uv]

ZoomFrames(s) == { i \in 1..Len(s) : s[i].kind = "zoom" }
InnermostZoom(s) == CHOOSE i \in ZoomFrames(s) : \A k \in ZoomFrames(s) : k <= i
Top(s) == s[Len(s)]
DropLast(s) == SubSeq(s, 1, Len(s) - 1)

InitZoomIdle ==
  /\ zoom_pc = "closed"
  /\ zoom_arg = << 0, 0 >>
  /\ zoom_uv = << ZoomCenter, ZoomCenter >>
  /\ zoom_ret = NoReturn
  /\ zoom_key = "none"
  /\ zoom_last = "none"
  /\ zoom_cb = FALSE

\* zoomed_inquiry(current_frame, uv), up to the start of the inquiry loop
InitZoom ==
  /\ zoom_pc = "open"
  /\ zoom_arg \in ClickPositions
  /\ zoom_uv = << ZoomCenter, ZoomCenter >>
  /\ zoom_ret = NoReturn
  /\ zoom_key = "none"
  /\ zoom_last = "none"
  /\ zoom_cb = TRUE

InitLabelIdle ==
  /\ click_points = << >>
  /\ marker_label = << >>
  /\ prev_tag = EmptyTag
  /\ main_pc = "done"
  /\ appended = << >>
  /\ pending = << >>
  /\ chosen = << >>

\* main(), up to the start of the first-layer selection loop
InitLabel ==
  /\ click_points = << >>
  /\ marker_label = << >>
  /\ prev_tag = EmptyTag
  /\ main_pc = "draw"
  /\ appended = << >>
  /\ pending = << >>
  /\ chosen = << >>

\* a left click in the zoom window, delivered by the cv2.waitKey of line 88 or by
\* the event loop of a prompt that is open
ZoomLeftClick ==
  /\ zoom_pc = "open"
  /\ zoom_cb
  /\ \E p \in ZoomPositions :
       zoom_uv' = on_mouse_zoom("EVENT_LBUTTONDOWN", p, zoom_uv,
                                << ZoomCenter, ZoomCenter >>)
  /\ zoom_last' = "EVENT_LBUTTONDOWN"
  /\ UNCHANGED << zoom_pc, zoom_arg, zoom_ret, zoom_key, zoom_cb,
                  labelVars, flowVars, fitVars, postureVars >>

\* a right click in the zoom window
ZoomRightClick ==
  /\ zoom_pc = "open"
  /\ zoom_cb
  /\ \E p \in ZoomPositions :
       zoom_uv' = on_mouse_zoom("EVENT_RBUTTONDOWN", p, zoom_uv,
                                << ZoomCenter, ZoomCenter >>)
  /\ zoom_last' = "EVENT_RBUTTONDOWN"
  /\ UNCHANGED << zoom_pc, zoom_arg, zoom_ret, zoom_key, zoom_cb,
                  labelVars, flowVars, fitVars, postureVars >>

\* mouse_event_click_point, lines 125-131, with the handlers in stack waiting
\* below: the point is appended first; with Ctrl held the tag is prev_tag and
\* the label is appended at once, otherwise the prompt opens and the handler
\* waits in it.
clickPoint(point, bypass_inquiry, stack) ==
  /\ click_points' = Append(click_points, point)
  /\ IF bypass_inquiry
       THEN /\ marker_label' = Append(marker_label, prev_tag)
            /\ chosen' = Append(chosen, prev_tag)
            /\ pending' = stack
       ELSE /\ pending' = Append(stack, PromptFrame(Len(click_points) + 1))
            /\ chosen' = Append(chosen, None)
            /\ UNCHANGED marker_label
  /\ UNCHANGED prev_tag

\* zoomed_inquiry, lines 88-105: key ends the inquiry loop, the windows are
\* destroyed and the position is computed from _uv.  A call made by the click
\* handler returns into lines 122-131; the zoomed_inquiry call that waited below
\* it, if any, goes on with its own uv and _uv in a window that was destroyed
\* and is created again by imshow without a mouse callback.
zoomReturn(key) ==
  /\ pending # << >> => Top(pending).kind = "zoom"
  /\ zoom_key' = key
  /\ zoom_ret' = ZoomReturn(zoom_arg, zoom_uv)
  /\ IF pending = << >>
       THEN /\ zoom_pc' = "returned"
            /\ UNCHANGED << zoom_arg, zoom_uv, zoom_last, zoom_cb, labelVars >>
       ELSE LET rest == DropLast(pending)
            IN /\ IF ZoomFrames(rest) = {}
                    THEN /\ clickPoint(zoom_ret', Top(pending).bypass, rest)
                         /\ zoom_pc' = "returned"
                         /\ UNCHANGED << zoom_arg, zoom_uv, zoom_last, zoom_cb >>
                    ELSE LET i == InnermostZoom(rest)
                         IN /\ clickPoint(zoom_ret', Top(pending).bypass,
                                          [rest EXCEPT ![i] =
                                             ZoomFrame(rest[i].bypass, << 0, 0 >>, << 0, 0 >>)])
                            /\ zoom_pc' = "open"
                            /\ zoom_arg' = rest[i].arg
                            /\ zoom_uv' = rest[i].uv
                            /\ zoom_last' = "none"
                            /\ zoom_cb' = FALSE
               /\ UNCHANGED << main_pc, appended >>
  /\ UNCHANGED << flowVars, fitVars, postureVars >>

\* key "d": cancel
ZoomCancel ==
  /\ zoom_pc = "open"
  /\ zoomReturn("d")

\* key "a": accept
ZoomAccept ==
  /\ zoom_pc = "open"
  /\ zoomReturn("a")

NextZoom ==
  \/ ZoomLeftClick
  \/ ZoomRightClick
  \/ ZoomCancel
  \/ ZoomAccept

\* The clicks the model lets in: every handler that waits in zoomed_inquiry
\* appends one point when it goes on.
RoomForClick == Len(click_points) + Cardinality(ZoomFrames(pending)) < MaxPoints

\* a left click is delivered to mouse_event_click_point, by a cv2.waitKey (line
\* 249 or line 88) or by the event loop of a prompt that is open
LeftClick ==
  /\ main_pc = "wait"
  /\ RoomForClick
  /\ \E xy \in ClickPositions, bypass_inquiry \in BOOLEAN :
       clickPoint(xy, bypass_inquiry, pending)
  /\ UNCHANGED << main_pc, appended, zoomVars, flowVars, fitVars, postureVars >>

\* a right click is delivered: lines 116-121 and zoomed_inquiry up to its
\* inquiry loop (lines 30-77), where the handler waits.  setMouseCallback hands
\* the zoom window to the new call; a call that waited there keeps its uv and _uv.
RightClick ==
  /\ main_pc = "wait"
  /\ RoomForClick
  /\ \E xy \in ClickPositions, bypass_inquiry \in BOOLEAN :
       /\ pending' =
            Append(IF zoom_pc = "open"
                     THEN [pending EXCEPT ![InnermostZoom(pending)] =
                             ZoomFrame(@.bypass, zoom_arg, zoom_uv)]
                     ELSE pending,
                   ZoomFrame(bypass_inquiry, << 0, 0 >>, << 0, 0 >>))
       /\ zoom_arg' = xy
  /\ zoom_pc' = "open"
  /\ zoom_uv' = << ZoomCenter, ZoomCenter >>
  /\ zoom_ret' = NoReturn
  /\ zoom_key' = "none"
  /\ zoom_last' = "none"
  /\ zoom_cb' = TRUE
  /\ UNCHANGED << click_points, marker_label, prev_tag, main_pc, appended, chosen,
                  flowVars, fitVars, postureVars >>

\* mouse_event_click_point, lines 131-138: the innermost open prompt returns; a
\* cancelled prompt ends the handler before marker_label.append, an answer
\* becomes prev_tag and is appended to marker_label
PromptReturn ==
  /\ main_pc = "wait"
  /\ pending # << >>
  /\ Top(pending).kind = "prompt"
  /\ pending' = DropLast(pending)
  /\ \E answer \in PromptAnswers :
       IF answer = None
         THEN UNCHANGED << marker_label, prev_tag, chosen >>
         ELSE /\ marker_label' = Append(marker_label, answer)
              /\ prev_tag' = answer
              /\ chosen' = [chosen EXCEPT ![Top(pending).idx] = answer]
  /\ UNCHANGED << click_points, main_pc, appended, zoomVars, flowVars, fitVars,
                  postureVars >>

\* top of the loop: frame_label reads marker_label[inx] for every point
DrawFrame ==
  /\ main_pc = "draw"
  /\ pending = << >>
  /\ Len(marker_label) >= Len(click_points)
  /\ main_pc' = "wait"
  /\ UNCHANGED << click_points, marker_label, prev_tag, appended, pending, chosen,
                  zoomVars, flowVars, fitVars, postureVars >>

\* frame_label raises IndexError when a point has no label
DrawFrameIndexError ==
  /\ main_pc = "draw"
  /\ pending = << >>
  /\ Len(marker_label) < Len(click_points)
  /\ main_pc' = "crashed"
  /\ UNCHANGED << click_points, marker_label, prev_tag, appended, pending, chosen,
                  zoomVars, flowVars, fitVars, postureVars >>

\* key "d": delete the last point and the last label
KeyDelete ==
  /\ main_pc = "wait"
  /\ pending = << >>
  /\ click_points = << >> \/ marker_label # << >>
  /\ IF click_points = << >>
       THEN UNCHANGED << click_points, marker_label, chosen >>
       ELSE /\ click_points' = DropLast(click_points)
            /\ marker_label' = DropLast(marker_label)
            /\ chosen' = DropLast(chosen)
  /\ main_pc' = "draw"
  /\ UNCHANGED << prev_tag, appended, pending, zoomVars, flowVars, fitVars, postureVars >>

\* key "d" with a point and no label: marker_label[-1] raises IndexError
KeyDeleteIndexError ==
  /\ main_pc = "wait"
  /\ pending = << >>
  /\ click_points # << >>
  /\ marker_label = << >>
  /\ main_pc' = "crashed"
  /\ UNCHANGED << click_points, marker_label, prev_tag, appended, pending, chosen,
                  zoomVars, flowVars, fitVars, postureVars >>

\* any other key, or none
KeyOther ==
  /\ main_pc = "wait"
  /\ pending = << >>
  /\ main_pc' = "draw"
  /\ UNCHANGED << click_points, marker_label, prev_tag, appended, pending, chosen,
                  zoomVars, flowVars, fitVars, postureVars >>

Min(a, b) == IF a < b THEN a ELSE b

\* zip(marker_label, points): the (point, label) pairs handed to FlowQueue
Zipped == [i \in 1..Min(Len(marker_label), Len(click_points)) |->
             << click_points[i], marker_label[i] >>]

\* the pairs before the first whose label is the empty string
BeforeEmptyLabel(z) ==
  LET bad == { i \in 1..Len(z) : z[i][2] = EmptyTag }
  IN IF bad = {} THEN z
     ELSE SubSeq(z, 1, (CHOOSE i \in bad : \A k \in bad : i <= k) - 1)

\* key "c": leave the loop and append one FlowQueue per zipped pair
KeyComplete ==
  /\ main_pc = "wait"
  /\ pending = << >>
  /\ BeforeEmptyLabel(Zipped) = Zipped
  /\ appended' = Zipped
  /\ main_pc' = "done"
  /\ UNCHANGED << click_points, marker_label, prev_tag, pending, chosen,
                  zoomVars, flowVars, fitVars, postureVars >>

\* key "c" with an empty-string label (Ctrl before any answered prompt):
\* label[0] raises IndexError
KeyCompleteIndexError ==
  /\ main_pc = "wait"
  /\ pending = << >>
  /\ BeforeEmptyLabel(Zipped) # Zipped
  /\ appended' = BeforeEmptyLabel(Zipped)
  /\ main_pc' = "crashed"
  /\ UNCHANGED << click_points, marker_label, prev_tag, pending, chosen,
                  zoomVars, flowVars, fitVars, postureVars >>

NextLabel ==
  \/ LeftClick
  \/ RightClick
  \/ ZoomLeftClick
  \/ ZoomRightClick
  \/ ZoomCancel
  \/ ZoomAccept
  \/ PromptReturn
  \/ DrawFrame
  \/ DrawFrameIndexError
  \/ KeyDelete
  \/ KeyDeleteIndexError
  \/ KeyOther
  \/ KeyComplete
  \/ KeyCompleteIndexError

InitGuiIdle == InitLabelIdle /\ InitZoomIdle

\* run() over one job
Init == InitFlow(OneJobLists) /\ InitFitIdle /\ InitPostureIdle /\ InitGuiIdle
Next == NextFlow
Spec == Init /\ [][Next]_vars

\* run() over a list of jobs
RunInit == InitFlow(RunLists) /\ InitFitIdle /\ InitPostureIdle /\ InitGuiIdle
SpecRun == RunInit /\ [][Next]_vars

InitFlowIdle ==
  /\ line242 = "as_written"
  /\ has_fields = FALSE
  /\ points = NoPoints
  /\ flow_queues = << >>
  /\ inquiries = << >>
  /\ history = << >>
  /\ qi = 1
  /\ pc = "done"
  /\ job = NoJob
  /\ num_frame = 0
  /\ status = [t \in Tags |-> FALSE]
  /\ capOpen = FALSE
  /\ videoOpens = 0
  /\ saved = << >>
  /\ prePoints = points
  /\ produced = {}
  /\ writes = {}
  /\ reported = {}
  /\ preOpens = 0
  /\ finished = << >>
  /\ old_gray = FALSE

\* compute_positions_and_directors applied to every observation table
FitInit == InitFlowIdle /\ InitFit /\ InitPostureIdle /\ InitGuiIdle
NextFit == ComputeCall
SpecFit == FitInit /\ [][NextFit]_vars

\* PostureData sessions over one backing file
PostureInit == InitFlowIdle /\ InitPosture /\ InitGuiIdle
SpecPosture == PostureInit /\ [][NextPosture]_vars

\* one labeling session of main()
LabelInit == InitFlowIdle /\ InitFitIdle /\ InitPostureIdle /\ InitLabel /\ InitZoomIdle
SpecLabel == LabelInit /\ [][NextLabel]_vars

\* one zoomed_inquiry call
ZoomInit == InitFlowIdle /\ InitFitIdle /\ InitPostureIdle /\ InitLabelIdle /\ InitZoom
SpecZoom == ZoomInit /\ [][NextZoom]_vars

(***************************************************************************)
(* Properties of the tracker                                               *)
(***************************************************************************)

\* The entries a job (tags, stime, etime) is entitled to change.
InJobRange(j, f, t) == j.stime < f /\ f < j.etime /\ t \in j.tags

\* The job's next_inquiry call has returned (run() may have moved on to the save).
JobReturned == job # NoJob /\ pc \in {"returned", "idle", "done"}

\* C1: a job changes pixel entries only at (frame, tag) with stime < frame < etime
\* and tag among the job's tags; the seed row, the rows from etime on and the
\* other tags keep the value they had when the job was popped.
C1_WritesOnlyInsideJobRange ==
  \A f \in Frames, t \in Tags :
    points[f][t] # prePoints[f][t] => InJobRange(job, f, t)

\* C2: once a job has returned, every entry inside its range holds the cleared
\* value or the coordinate the job's own flow produced for that frame and tag.
C2_NoStaleValueInRange ==
  JobReturned =>
    \A f \in Frames, t \in Tags :
      InJobRange(job, f, t) =>
        \/ points[f][t] = Cleared
        \/ << f, t, points[f][t] >> \in produced

\* C2 witness: a returned job left one entry of its range cleared where an
\* earlier run's coordinate stood, and wrote a coordinate into another.
C2_Witness ==
  /\ pc = "returned"
  /\ \E f \in Frames, t \in Tags :
       InJobRange(job, f, t) /\ prePoints[f][t] # Cleared /\ points[f][t] = Cleared
  /\ \E f \in Frames, t \in Tags :
       InJobRange(job, f, t) /\ << f, t >> \in writes /\ points[f][t] # Cleared

\* C3: after the flow routine reported a failed status for a tag at frame g, the
\* job writes no coordinate for that tag at g or at any later frame: the entry
\* keeps what the clearing step left there.
C3_LostPointNeverWritten ==
  \A g \in Frames, t \in Tags :
    << g, t, FALSE >> \in reported =>
      \A f \in Frames :
        f >= g => /\ << f, t >> \notin writes
                  /\ points[f][t] = ClearPoints(prePoints, job)[f][t]

\* C3 witness: a tag failed at one frame, the routine reported success for it at
\* a later frame of the same job, and that later entry is still the cleared one.
C3_Witness ==
  \E g \in Frames, f \in Frames, t \in Tags :
    /\ g < f
    /\ << g, t, FALSE >> \in reported
    /\ << f, t, TRUE >> \in reported
    /\ InJobRange(job, f, t)
    /\ prePoints[f][t] # Cleared
    /\ points[f][t] = Cleared

\* C4: a job of the list whose start frame is at or past the frame count is
\* skipped when run() comes to it: its next_inquiry call returns, no video is
\* opened and no pixel entry changes, neither by clearing nor by a coordinate.
C4_SkippedJobWritesNothing ==
  \A i \in 1..Len(flow_queues) :
    (flow_queues[i].stime >= NumFrames /\ qi = i /\ pc # "idle") =>
      /\ pc = "returned"
      /\ job = flow_queues[i]
      /\ points = prePoints
      /\ videoOpens = preOpens
      /\ ~capOpen

\* C5: run() takes the jobs in list order, executes each once, and a job is in
\* the history log once and only after its execution has finished; when run()
\* is over, every job of the list has been executed and logged.
C5_LoggedOnlyAfterExecution ==
  /\ Len(history) <= Len(finished)
  /\ finished = SubSeq(flow_queues, 1, Len(finished))
  /\ history = SubSeq(flow_queues, 1, Len(history))
  /\ pc \in {"done", "crashed"} => finished = flow_queues /\ history = flow_queues

(***************************************************************************)
(* Properties of PostureData                                               *)
(***************************************************************************)

LastLoad == loads[Len(loads)]

\* C6: after a load that returned, the fields hold the two arrays of the file
\* (both datasets present) or the two arrays of one recomputation over the
\* Track Store; an array read from the file is never kept beside a recomputed one.
C6_LoadIsAllOrNothing ==
  loads # << >> =>
    LET c == compute_positions_and_directors(LastLoad.track) IN
      /\ IF LastLoad.filePositions # Absent /\ LastLoad.fileDirectors # Absent
           THEN /\ LastLoad.path = "hit"
                /\ LastLoad.positions = LastLoad.filePositions
                /\ LastLoad.directors = LastLoad.fileDirectors
           ELSE /\ LastLoad.path = "recompute"
                /\ ~c.raised
                /\ LastLoad.positions = Stored(c.positions)
                /\ LastLoad.directors = Stored(c.directors)
      /\ phase = "in" =>
           mem_positions = LastLoad.positions /\ mem_directors = LastLoad.directors

\* C6 witness: a load found the positions dataset without the directors dataset,
\* and the positions it returned are recomputed ones that differ from the file's.
C6_Witness ==
  /\ loads # << >>
  /\ phase = "in"
  /\ LastLoad.filePositions # Absent
  /\ LastLoad.fileDirectors = Absent
  /\ mem_positions # LastLoad.filePositions
  /\ mem_directors # Absent

\* Two loads returned one after the other with no change of the Track Store
\* between them.
RepeatedLoad == Len(loads) = 2 /\ ~loads[2].trackChanged

\* C7 as stated: the second of two loads with an unchanged Track Store returns
\* the same arrays and takes the cache-hit path.
C7_SecondLoadIsCacheHit ==
  RepeatedLoad =>
    /\ loads[2].positions = loads[1].positions
    /\ loads[2].directors = loads[1].directors
    /\ loads[2].path = "hit"

\* C8: after any save, failed or not, the file holds both arrays of the saved
\* pair or both datasets as they were before the call.
C8_WriteBackIsAtomic ==
  lastSave.outcome # "none" =>
    \/ << file_positions, file_directors >> = lastSave.new
    \/ << file_positions, file_directors >> = lastSave.pre

(***************************************************************************)
(* Properties of the Posture Reconstructor                                 *)
(***************************************************************************)

Computed == fit_result # NotCalled

\* C9: when every tag of a cross-section is missing at a timestep, the
\* computation completes and the center and director entries of that
\* (cross-section, timestep) are NaN.
C9_AllMissingGivesNaN ==
  Computed =>
    \A z \in ZIndex, t \in Times :
      ValidTags(track, z, t) = {} =>
        /\ ~fit_result.raised
        /\ IsNaN(fit_result.positions[z][t])
        /\ IsNaN(fit_result.directors[z][t])

\* C10: a (cross-section, timestep) with fewer than 4 observed tags is
\* detectable in what the reconstruction hands back: an exception or a NaN
\* entry, never a plain fitted value.
C10_UnderdeterminedFitIsFlagged ==
  Computed =>
    \A z \in ZIndex, t \in Times :
      Cardinality(ValidTags(track, z, t)) < 4 =>
        \/ fit_result.raised
        \/ IsNaN(fit_result.positions[z][t])

\* C11: for observations equal to the reference ring shifted by one
\* translation c, the reconstructed center is c (local origin 0) and the
\* reconstructed director is the local basis itself (identity), for every c.
C11_PureTranslationGivesIdentity ==
  Computed =>
    \A c \in (0 - MaxObs)..MaxObs :
      track = Translated(c) =>
        /\ ~fit_result.raised
        /\ \A z \in ZIndex, t \in Times :
             /\ fit_result.positions[z][t] = Num(Origin + c)
             /\ fit_result.directors[z][t] = Num(BasisQ)

(***************************************************************************)
(* Properties of the PostureData context flag                              *)
(***************************************************************************)

\* C13: the context flag is true exactly between a successful __enter__ and
\* the matching __exit__: it is false before __enter__, after an __enter__
\* that failed, and after __exit__ even when the save raised.
C13_FlagTrueOnlyInSession ==
  inside_context <=> phase \in {"in", "raising"}

(***************************************************************************)
(* Properties of the labeling script                                       *)
(***************************************************************************)

\* C12: during labeling, after any sequence of clicks, prompts (answered,
\* cancelled or bypassed with Ctrl) and "d" deletions, points and marker_label
\* have the same length and the i-th label is the tag chosen for the i-th
\* point; every FlowQueue appended pairs a clicked point with its own label.
C12_LabelsMatchPoints ==
  pending = << >> =>
  /\ Len(marker_label) = Len(click_points)
  /\ \A i \in 1..Len(marker_label) : marker_label[i] = chosen[i]
  /\ \A k \in 1..Len(appended) :
       \E i \in 1..Len(click_points) : appended[k] = << click_points[i], chosen[i] >>

\* C14: in the zoomed-in inquiry, cancelling with "d" returns the original
\* position passed in, whatever was clicked in the zoom window before.
C14_CancelReturnsOriginal ==
  (zoom_pc = "returned" /\ zoom_key = "d") => zoom_ret = zoom_arg

====
